---- MODULE Spec2Model ----
(***************************************************************************)
(* Model of scripts/add_companies.py: the ingestion pipeline that          *)
(* validates, normalizes, deduplicates and geocodes a batch of company     *)
(* rows and merges it into companies.csv.                                  *)
(*                                                                         *)
(* A Python str is a sequence of one-character strings; None is a value    *)
(* that is no such sequence.                                               *)
(***************************************************************************)
EXTENDS Integers, Sequences, FiniteSets, TLC

VARIABLES
    csv,          \* rows of companies.csv, in file order
    cache,        \* data/geocode_cache.json: Corrupt, or a key -> [lat, lng] mapping
    before,       \* the two files as the last run or call found them
    left,         \* pipeline runs this behaviour may still make
    incoming,     \* data rows of the input file of the last run (header excluded)
    check_only,   \* the --check flag of the last run
    processed,    \* first component of the last run's return value
    errors,       \* second component of the last run's return value
    fate,         \* per incoming_companies entry of the last run: where its loop iteration ended
    requests,     \* queries sent to the geocoding service by the last run / call
    wrote,        \* whether the last run reached the writer (lines 355-359)
    calls,        \* number of direct geocode_location calls so far
    geoArgs,      \* arguments of the last direct geocode_location call
    geoRet,       \* its result: [ok, lat, lng] or [ok |-> FALSE]
    url,          \* string under normalize_url
    urlPrev,      \* its value before the last normalize_url pass
    passes,       \* number of normalize_url passes applied
    company,      \* record under validate_company
    validated,    \* validate_company(company) has been called
    valErrors     \* its result

vars == <<csv, cache, before, left, incoming, check_only, processed, errors, fate,
          requests, wrote, calls, geoArgs, geoRet, url, urlPrev, passes, company,
          validated, valErrors>>

\* ---------------------------------------------------------------- bounds
MaxBatch == 2      \* data rows per input file
MaxRuns == 2       \* pipeline runs per behaviour
MaxFile == 2       \* rows of a companies.csv found on disk
MaxPasses == 2     \* normalize_url passes over one string
MaxPieces == 3     \* pieces concatenated into a URL input
MaxCalls == 3      \* direct geocode_location calls per behaviour

\* ------------------------------------------------------------- Python str
None == <<"None">>

\* printable ASCII in code point order, from 32; the characters a TLA+
\* string cannot hold keep their place under a name no input contains
Ascii ==
    <<" ", "!", "<dquote>", "#", "$", "%", "&", "'", "(", ")", "*", "+", ",", "-", ".", "/",
      "0", "1", "2", "3", "4", "5", "6", "7", "8", "9", ":", ";", "<", "=", ">", "?",
      "@", "A", "B", "C", "D", "E", "F", "G", "H", "I", "J", "K", "L", "M", "N", "O",
      "P", "Q", "R", "S", "T", "U", "V", "W", "X", "Y", "Z", "[", "<backslash>", "]", "^", "_",
      "<backtick>", "a", "b", "c", "d", "e", "f", "g", "h", "i", "j", "k", "l", "m", "n", "o",
      "p", "q", "r", "s", "t", "u", "v", "w", "x", "y", "z", "{", "|", "}", "~">>

Chars == {Ascii[i] : i \in 1..Len(Ascii)}

\* code point of a character
Ord == [c \in Chars |-> 31 + CHOOSE i \in 1..Len(Ascii) : Ascii[i] = c]

Chr(n) == Ascii[n - 31]

IsUpper(c) == Ord[c] \in 65..90
IsLower(c) == Ord[c] \in 97..122
IsDigit(c) == Ord[c] \in 48..57
IsSpace(c) == c = " "
\* \w of the re module
IsWord(c) == IsUpper(c) \/ IsLower(c) \/ IsDigit(c) \/ c = "_"

LowerChar == [c \in Chars |-> IF IsUpper(c) THEN Chr(Ord[c] + 32) ELSE c]
UpperChar == [c \in Chars |-> IF IsLower(c) THEN Chr(Ord[c] - 32) ELSE c]

\* str.lower(), str.upper()
Lower(s) == [i \in 1..Len(s) |-> LowerChar[s[i]]]
Upper(s) == [i \in 1..Len(s) |-> UpperChar[s[i]]]

\* s[a:b] with 0-based a >= 0 and exclusive b >= 0, clamped to the string
Slice(s, a, b) ==
    LET hi == IF b > Len(s) THEN Len(s) ELSE b
    IN IF hi <= a THEN <<>> ELSE SubSeq(s, a + 1, hi)

\* str.startswith(p), str.endswith(p)
StartsWith(s, p) == Len(p) <= Len(s) /\ SubSeq(s, 1, Len(p)) = p
EndsWith(s, p) == Len(p) <= Len(s) /\ SubSeq(s, Len(s) - Len(p) + 1, Len(s)) = p

RECURSIVE LStripSet(_, _)
LStripSet(s, set) ==
    IF s # <<>> /\ Head(s) \in set THEN LStripSet(Tail(s), set) ELSE s

RECURSIVE RStripSet(_, _)
RStripSet(s, set) ==
    IF s # <<>> /\ s[Len(s)] \in set
    THEN RStripSet(SubSeq(s, 1, Len(s) - 1), set)
    ELSE s

Whitespace == {" "}

\* str.strip()
Strip(s) == RStripSet(LStripSet(s, Whitespace), Whitespace)

\* str.strip(chars)
StripChars(s, set) == RStripSet(LStripSet(s, set), set)

\* truthiness of company.get(field)
Truthy(v) == v # None /\ v # <<>>

\* dict.get(field) and dict.get(field, default)
Get(d, f) == IF f \in DOMAIN d THEN d[f] ELSE None
GetOr(d, f, dflt) == IF f \in DOMAIN d THEN d[f] ELSE dflt

\* ---------------------------------------------------------------- constants
INDUSTRIES ==
    { <<"S","a","a","S">>, <<"F","i","n","t","e","c","h">>,
      <<"H","e","a","l","t","h","t","e","c","h">>,
      <<"E","c","o","m","m","e","r","c","e">>, <<"A","g","e","n","c","y">>,
      <<"G","a","m","i","n","g">>, <<"A","I">>,
      <<"C","l","e","a","n","t","e","c","h">>,
      <<"T","e","l","e","c","o","m","m","u","n","i","c","a","t","i","o","n","s">> }

REMOTE_POLICIES ==
    { <<"R","e","m","o","t","e">>, <<"H","y","b","r","i","d">>,
      <<"O","n","s","i","t","e">> }

PROVINCES ==
    { <<"A","B">>, <<"B","C">>, <<"M","B">>, <<"N","B">>, <<"N","L">>,
      <<"N","S">>, <<"N","T">>, <<"N","U">>, <<"O","N">>, <<"P","E">>,
      <<"Q","C">>, <<"S","K">>, <<"Y","T">> }

HTTP == <<"h","t","t","p",":","/","/">>
HTTPS == <<"h","t","t","p","s",":","/","/">>

\* ------------------------------------------------------------ normalize_url
normalize_url(u) ==
    LET s == Strip(u) IN
    IF s = <<>> THEN s
    ELSE LET t == IF ~(StartsWith(s, HTTP) \/ StartsWith(s, HTTPS))
                  THEN HTTPS \o s
                  ELSE IF StartsWith(s, HTTP)
                       THEN HTTPS \o Slice(s, Len(HTTP), Len(s))
                       ELSE s
         IN RStripSet(t, {"/"})

\* ------------------------------------------------------- slugify, generate_id
\* re.sub(r'[^\w\s-]', '', text)
RECURSIVE DropSpecial(_)
DropSpecial(s) ==
    IF s = <<>> THEN <<>>
    ELSE IF IsWord(Head(s)) \/ IsSpace(Head(s)) \/ Head(s) = "-"
         THEN <<Head(s)>> \o DropSpecial(Tail(s))
         ELSE DropSpecial(Tail(s))

IsSep(c) == c = "-" \/ IsSpace(c)

\* re.sub(r'[-\s]+', '-', text)
RECURSIVE CollapseSeps(_)
CollapseSeps(s) ==
    IF s = <<>> THEN <<>>
    ELSE IF IsSep(Head(s))
         THEN <<"-">> \o CollapseSeps(LStripSet(s, {"-"} \cup Whitespace))
         ELSE <<Head(s)>> \o CollapseSeps(Tail(s))

slugify(text) == StripChars(CollapseSeps(DropSpecial(Lower(text))), {"-"})

generate_id(name, city) == slugify(name) \o <<"-">> \o slugify(city)

\* ------------------------------------------------------------ normalize_name
suffixes ==
    << <<" ","i","n","c",".">>, <<" ","i","n","c">>, <<" ","l","t","d",".">>,
       <<" ","l","t","d">>, <<" ","c","o","r","p",".">>, <<" ","c","o","r","p">>,
       <<" ","l","l","c">>, <<" ","c","o",".">>, <<" ","c","o">> >>

RECURSIVE StripSuffixes(_, _)
StripSuffixes(name, i) ==
    IF i > Len(suffixes) THEN name
    ELSE IF EndsWith(name, suffixes[i])
         THEN StripSuffixes(Strip(Slice(name, 0, Len(name) - Len(suffixes[i]))), i + 1)
         ELSE StripSuffixes(name, i + 1)

normalize_name(name) == StripSuffixes(Lower(Strip(name)), 1)

\* ---------------------------------------------------------- urlparse(url).netloc
scheme_chars == {c \in Chars : IsUpper(c) \/ IsLower(c) \/ IsDigit(c)} \cup {"+", "-", "."}

\* str.find(c, start): 0-based index of the first c at or after start, or -1
Find(s, c, start) ==
    IF \E i \in (start + 1)..Len(s) : s[i] = c
    THEN (CHOOSE i \in (start + 1)..Len(s) :
              s[i] = c /\ \A j \in (start + 1)..(i - 1) : s[j] # c) - 1
    ELSE -1

\* urlsplit: what is left of the url after its scheme
AfterScheme(u) ==
    LET i == Find(u, ":", 0) IN
    IF i > 0 /\ (IsUpper(u[1]) \/ IsLower(u[1]))
             /\ \A j \in 1..i : u[j] \in scheme_chars
    THEN Slice(u, i + 1, Len(u))
    ELSE u

\* _splitnetloc(url, 2): up to the first of '/', '?', '#'
NetLoc(u) ==
    LET rest == AfterScheme(LStripSet(u, Whitespace))
        ends == {Find(rest, c, 2) : c \in {"/", "?", "#"}} \ {-1}
        delim == IF ends = {} THEN Len(rest)
                 ELSE CHOOSE e \in ends : \A f \in ends : e <= f
    IN IF Slice(rest, 0, 2) = <<"/", "/">> THEN Slice(rest, 2, delim) ELSE <<>>

Contains(s, c) == \E i \in 1..Len(s) : s[i] = c

\* urlsplit raises ValueError("Invalid IPv6 URL")
UrlParseRaises(u) ==
    LET n == NetLoc(u) IN
    (Contains(n, "[") /\ ~Contains(n, "]")) \/ (Contains(n, "]") /\ ~Contains(n, "["))

\* ---------------------------------------------------------- validate_company
required == <<"name", "url", "industry", "remote_policy", "city", "province">>

\* one entry of the list validate_company returns; kind is the fixed text of
\* the message, field the field it is about, value the value it quotes
Err(kind, field, value) == [kind |-> kind, field |-> field, value |-> value]

RECURSIVE MissingErrors(_, _)
MissingErrors(c, i) ==
    IF i > Len(required) THEN <<>>
    ELSE (IF ~Truthy(Get(c, required[i])) \/ Strip(c[required[i]]) = <<>>
          THEN <<Err("Missing required field", required[i], <<>>)>>
          ELSE <<>>) \o MissingErrors(c, i + 1)

UrlErrors(c) ==
    IF ~Truthy(Get(c, "url")) THEN <<>>
    ELSE LET u == normalize_url(c["url"]) IN
         (IF ~StartsWith(u, HTTPS)
          THEN <<Err("URL must start with https://", "url", c["url"])>>
          ELSE <<>>)
         \o (IF UrlParseRaises(u) THEN <<Err("Invalid URL", "url", c["url"])>>
             ELSE IF NetLoc(u) = <<>>
                  THEN <<Err("Invalid URL format", "url", c["url"])>>
                  ELSE <<>>)

EnumErrors(c, field, value, allowed) ==
    IF Truthy(Get(c, field)) /\ value \notin allowed
    THEN <<Err("Invalid " \o field, field, value)>>
    ELSE <<>>

validate_company(c) ==
    MissingErrors(c, 1)
    \o UrlErrors(c)
    \o EnumErrors(c, "industry", Strip(GetOr(c, "industry", <<>>)), INDUSTRIES)
    \o EnumErrors(c, "remote_policy", Strip(GetOr(c, "remote_policy", <<>>)), REMOTE_POLICIES)
    \o EnumErrors(c, "province", Upper(Strip(GetOr(c, "province", <<>>))), PROVINCES)

\* ------------------------------------------------------------ geocode cache
\* data/geocode_cache.json is absent, unreadable as JSON, or holds a mapping
EmptyMap == [k \in {} |-> 0]
AbsentCache == [state |-> "absent", data |-> EmptyMap]
CorruptCache == [state |-> "corrupt", data |-> EmptyMap]
CacheFile(m) == [state |-> "ok", data |-> m]

load_cache(file) == IF file.state = "ok" THEN file.data ELSE EmptyMap

save_cache(m) == CacheFile(m)

\* dict item assignment d[k] = v
Put(d, k, v) == [f \in DOMAIN d \cup {k} |-> IF f = k THEN v ELSE d[f]]

\* -------------------------------------------------------- geocode_location
COMMA == <<",", " ">>
CANADA == <<"C","a","n","a","d","a">>

\* what geocoder.geocode answers: a place, nothing, or a timeout / service error
Outcomes == {"found", "none", "timeout"}

\* the place the service returns for a query; it answers by the whole query,
\* so a query with an address hint resolves elsewhere than one without
Locate(query) == [lat |-> 40 + (Len(query) % 20), lng |-> 0 - (60 + (Len(query) % 40))]

Query(city, province, hq_address) ==
    (IF Truthy(hq_address) THEN hq_address \o COMMA ELSE <<>>)
    \o city \o COMMA \o province \o COMMA \o CANADA

CacheKey(city, province) == city \o COMMA \o province \o COMMA \o CANADA

\* geocode_location with the address hint in the cache key
geocode_location_HintInKey(file, city, province, hq_address, outcome) ==
    LET cache_ == load_cache(file)
        query == Query(city, province, hq_address)
        cache_key == query
    IN IF cache_key \in DOMAIN cache_
       THEN [ok |-> TRUE, lat |-> cache_[cache_key].lat, lng |-> cache_[cache_key].lng,
             file |-> file, sent |-> 0, query |-> query]
       ELSE IF outcome = "found"
            THEN [ok |-> TRUE, lat |-> Locate(query).lat, lng |-> Locate(query).lng,
                  file |-> save_cache(Put(cache_, cache_key, Locate(query))),
                  sent |-> 1, query |-> query]
            ELSE [ok |-> FALSE, lat |-> 0, lng |-> 0, file |-> file, sent |-> 1,
                  query |-> query]

\* Result: ok = FALSE stands for the ValueError; file is the cache file after
\* the call; sent is the number of requests issued to the service.
geocode_location(file, city, province, hq_address, outcome) ==
    LET cache_ == load_cache(file)
        query == Query(city, province, hq_address)
        cache_key == CacheKey(city, province)
    IN IF cache_key \in DOMAIN cache_
       THEN [ok |-> TRUE, lat |-> cache_[cache_key].lat, lng |-> cache_[cache_key].lng,
             file |-> file, sent |-> 0, query |-> query]
       ELSE IF outcome = "found"
            THEN [ok |-> TRUE, lat |-> Locate(query).lat, lng |-> Locate(query).lng,
                  file |-> save_cache(Put(cache_, cache_key, Locate(query))),
                  sent |-> 1, query |-> query]
            ELSE [ok |-> FALSE, lat |-> 0, lng |-> 0, file |-> file, sent |-> 1,
                  query |-> query]

\* ------------------------------------------------------------- is_duplicate
\* is_duplicate without its id comparison
is_duplicate_NoIdCheck(new_company, existing_companies) ==
    \E i \in 1..Len(existing_companies) :
        LET existing == existing_companies[i] IN
        /\ normalize_name(GetOr(existing, "name", <<>>)) = normalize_name(new_company["name"])
        /\ Lower(Strip(GetOr(existing, "city", <<>>))) = Lower(Strip(new_company["city"]))
        /\ Upper(Strip(GetOr(existing, "province", <<>>))) = Upper(Strip(new_company["province"]))

\* is_duplicate without its name + city + province comparison
is_duplicate_IdOnly(new_company, existing_companies) ==
    \E i \in 1..Len(existing_companies) :
        Get(existing_companies[i], "id") = new_company["id"]

is_duplicate(new_company, existing_companies) ==
    LET new_id == new_company["id"]
        new_name_norm == normalize_name(new_company["name"])
        new_city == Lower(Strip(new_company["city"]))
        new_province == Upper(Strip(new_company["province"]))
    IN \E i \in 1..Len(existing_companies) :
          LET existing == existing_companies[i] IN
          \/ Get(existing, "id") = new_id
          \/ /\ normalize_name(GetOr(existing, "name", <<>>)) = new_name_norm
             /\ Lower(Strip(GetOr(existing, "city", <<>>))) = new_city
             /\ Upper(Strip(GetOr(existing, "province", <<>>))) = new_province

\* ------------------------------------------------------------------ str(float)
Digits == <<"0", "1", "2", "3", "4", "5", "6", "7", "8", "9">>

RECURSIVE NatStr(_)
NatStr(n) == IF n < 10 THEN <<Digits[n + 1]>> ELSE NatStr(n \div 10) \o <<Digits[(n % 10) + 1]>>

\* str() of a float holding a whole number of degrees
FloatStr(n) == (IF n < 0 THEN <<"-">> \o NatStr(0 - n) ELSE NatStr(n)) \o <<".", "0">>

\* --------------------------------------------------------------------- reader
\* lines 270-279: the rows the reader keeps
IsBlankRow(row) == \A f \in DOMAIN row : ~Truthy(row[f])
IsCommentRow(row) == StartsWith(Strip(GetOr(row, "name", <<>>)), <<"#">>)
Kept(row) == ~IsBlankRow(row) /\ ~IsCommentRow(row)

ReadInput(rows) == SelectSeq(rows, Kept)

load_existing_companies(file) == file

\* ------------------------------------------------- process_incoming_companies
\* str comparison: lexicographic by code point
RECURSIVE StrLess(_, _)
StrLess(a, b) ==
    IF b = <<>> THEN FALSE
    ELSE IF a = <<>> THEN TRUE
    ELSE IF Head(a) = Head(b) THEN StrLess(Tail(a), Tail(b))
    ELSE Ord[Head(a)] < Ord[Head(b)]

\* key=lambda x: (x.get('province', ''), x.get('name', ''))
SortKey(x) == <<GetOr(x, "province", <<>>), GetOr(x, "name", <<>>)>>

\* the sort key without the province
KeyLess_NameOnly(x, y) == StrLess(SortKey(x)[2], SortKey(y)[2])

KeyLess(x, y) ==
    IF SortKey(x)[1] # SortKey(y)[1]
    THEN StrLess(SortKey(x)[1], SortKey(y)[1])
    ELSE StrLess(SortKey(x)[2], SortKey(y)[2])

RECURSIVE InsertByKey(_, _)
InsertByKey(x, s) ==
    IF s = <<>> THEN <<x>>
    ELSE IF KeyLess(x, Head(s)) THEN <<x>> \o s
    ELSE <<Head(s)>> \o InsertByKey(x, Tail(s))

\* list.sort(key=...): stable, ascending
RECURSIVE SortCompanies(_)
SortCompanies(s) ==
    IF s = <<>> THEN <<>>
    ELSE InsertByKey(s[Len(s)], SortCompanies(SubSeq(s, 1, Len(s) - 1)))

fieldnames == <<"id", "name", "url", "description", "industry", "tags",
                "remote_policy", "city", "province", "lat", "lng">>

FieldSet == {fieldnames[i] : i \in 1..Len(fieldnames)}

\* writer.writerow({k: company.get(k, '') for k in fieldnames})
WriteRow(c) == [k \in FieldSet |-> GetOr(c, k, <<>>)]

\* lines 349-359: the rows of companies.csv after the write
WriteCsv(existing_companies, processed_) ==
    LET all_companies == SortCompanies(existing_companies \o processed_)
    IN [i \in 1..Len(all_companies) |-> WriteRow(all_companies[i])]

\* lines 300-307
Normalized(c) ==
    LET c1 == Put(c, "url", normalize_url(c["url"]))
        c2 == Put(c1, "id", generate_id(c1["name"], c1["city"]))
    IN Put(c2, "province", Upper(Strip(c2["province"])))

\* lines 323-331
Enriched(c, lat, lng) ==
    LET c1 == Put(c, "lat", FloatStr(lat))
        c2 == Put(c1, "lng", FloatStr(lng))
        c3 == Put(c2, "description", Strip(GetOr(c2, "description", <<>>)))
    IN Put(c3, "tags", Strip(GetOr(c3, "tags", <<>>)))

RowErrors(idx, es) ==
    [j \in 1..Len(es) |->
        [row |-> idx + 2, kind |-> es[j].kind, field |-> es[j].field, value |-> es[j].value]]

CompanyError(kind, c, detail) ==
    [kind |-> kind, name |-> c["name"], city |-> c["city"],
     province |-> c["province"], detail |-> detail]

\* --------------------------------------------------------------- input rows
\* a plain valid row; the province is given in lower case
Acme ==
    [name |-> <<"A","c","m","e">>, url |-> <<"a","c","m","e",".","c","o","m">>, industry |-> <<"S","a","a","S">>,
     remote_policy |-> <<"R","e","m","o","t","e">>, city |-> <<"A","j","a","x">>, province |-> <<"o","n">>,
     description |-> <<>>, tags |-> <<>>, hq_address |-> <<>>]

\* same company as Acme up to suffix, case and padding; other url, tags, hint
AcmeInc ==
    [name |-> <<"A","c","m","e"," ","I","n","c",".">>, url |-> <<"h","t","t","p",":","/","/","a","c","m","e",".","i","o","/">>, industry |-> <<"A","I">>,
     remote_policy |-> <<"H","y","b","r","i","d">>, city |-> <<"a","j","a","x"," ">>, province |-> <<"O","N">>,
     description |-> <<" ","x">>, tags |-> <<"t">>, hq_address |-> <<"1"," ","M","a","i","n">>]

\* slugifies to the id of AcmeInc, normalizes to another name
AcmeComma ==
    [name |-> <<"A","c","m","e",","," ","I","n","c",".">>, url |-> <<"a","c","m","e",".","c","o","m">>, industry |-> <<"S","a","a","S">>,
     remote_policy |-> <<"R","e","m","o","t","e">>, city |-> <<"A","j","a","x">>, province |-> <<"O","N">>,
     description |-> <<>>, tags |-> <<>>, hq_address |-> <<"1"," ","M","a","i","n">>]

\* valid, with padded industry and province
Bolt ==
    [name |-> <<"B","o","l","t">>, url |-> <<"b","o","l","t",".","c","o","/">>, industry |-> <<" ","A","I">>,
     remote_policy |-> <<"O","n","s","i","t","e">>, city |-> <<"H","u","l","l">>, province |-> <<" ","b","c">>,
     description |-> <<>>, tags |-> <<>>, hq_address |-> <<>>]

\* invalid: blank remote_policy, unknown industry, url without host
Bad ==
    [name |-> <<"Z","e","d">>, url |-> <<"/">>, industry |-> <<"F","o","o">>,
     remote_policy |-> <<" ">>, city |-> <<"A","j","a","x">>, province |-> <<"O","N">>,
     description |-> <<>>, tags |-> <<>>, hq_address |-> <<>>]

\* a comment row
Comment ==
    [name |-> <<"#","x">>, url |-> <<>>, industry |-> <<>>,
     remote_policy |-> <<>>, city |-> <<>>, province |-> <<>>,
     description |-> <<>>, tags |-> <<>>, hq_address |-> <<>>]

\* a row of empty cells
Blank ==
    [name |-> <<>>, url |-> <<>>, industry |-> <<>>,
     remote_policy |-> <<>>, city |-> <<>>, province |-> <<>>,
     description |-> <<>>, tags |-> <<>>, hq_address |-> <<>>]

Rows == {Acme, AcmeInc, AcmeComma, Bolt, Bad, Comment, Blank}

\* validate_company and lines 300-307 on each input row, evaluated once
ValidationOf == [r \in Rows |-> validate_company(r)]
NormalizedOf == [r \in Rows |-> IF ValidationOf[r] = <<>> THEN Normalized(r) ELSE r]

\* The loop of lines 293-333 keeps processed, errors, the cache file and the
\* number of requests sent in st; st.fate records, per entry already seen, the
\* branch its iteration left through.

\* lines 296-298
Rejected(st, idx, validation_errors) ==
    [st EXCEPT !.errors = @ \o RowErrors(idx, validation_errors),
               !.fate = Append(@, "invalid")]

\* lines 319-333, g being what geocode_location returned or raised
Geocoded(st, c, g) ==
    IF ~g.ok
    THEN [st EXCEPT !.errors = Append(@, CompanyError("Geocoding failed", c, g.query)),
                    !.fate = Append(@, "geocoding failed"),
                    !.file = g.file, !.sent = @ + g.sent]
    ELSE [st EXCEPT !.processed = Append(@, Enriched(c, g.lat, g.lng)),
                    !.fate = Append(@, "processed"),
                    !.file = g.file, !.sent = @ + g.sent]

\* lines 309-333
Deduplicated(st, c, existing_companies, svc) ==
    IF is_duplicate(c, existing_companies)
    THEN [st EXCEPT !.errors = Append(@, CompanyError("Duplicate company", c, c["id"])),
                    !.fate = Append(@, "duplicate")]
    ELSE IF is_duplicate(c, st.processed)
    THEN [st EXCEPT !.errors = Append(@, CompanyError("Duplicate company in batch", c, c["id"])),
                    !.fate = Append(@, "duplicate in batch")]
    ELSE Geocoded(st, c, geocode_location(st.file, c["city"], c["province"],
                                          Strip(GetOr(c, "hq_address", <<>>)), svc))

\* lines 294-333: one iteration, on the entry at 0-based position idx
ProcessOne(st, idx, raw, existing_companies, svc) ==
    IF ValidationOf[raw] # <<>>
    THEN Rejected(st, idx, ValidationOf[raw])
    ELSE Deduplicated(st, NormalizedOf[raw], existing_companies, svc)

\* lines 293-333: the loop from position idx on (the state after an iteration
\* is bound as a value before the next one starts)
RECURSIVE ProcessFrom(_, _, _, _, _)
ProcessFrom(incoming_companies, existing_companies, idx, st, svc) ==
    IF idx >= Len(incoming_companies) THEN st
    ELSE CHOOSE final \in
            {ProcessFrom(incoming_companies, existing_companies, idx + 1, next, svc) :
                next \in {ProcessOne(st, idx, incoming_companies[idx + 1],
                                     existing_companies, svc)}} : TRUE

\* the write policy without its "if errors" return
ShouldWrite_IgnoringErrors(check, errors_, processed_) ==
    ~check /\ processed_ # <<>>

\* lines 335-344: the writer is reached
ShouldWrite(check, errors_, processed_) ==
    ~check /\ errors_ = <<>> /\ processed_ # <<>>

\* lines 335-361: what the call returns and leaves behind after the loop
Returned(st, check, existing_companies, file) ==
    [processed |-> st.processed, errors |-> st.errors, fate |-> st.fate,
     csv |-> IF ShouldWrite(check, st.errors, st.processed)
             THEN WriteCsv(existing_companies, st.processed)
             ELSE file,
     cache |-> st.file, sent |-> st.sent,
     wrote |-> ShouldWrite(check, st.errors, st.processed)]

\* Result of one call of process_incoming_companies on an input file that
\* exists, while the service answers svc to every request: the returned pair,
\* the two files afterwards and the trace of the call.
process_incoming_companies(rows, check, file, cacheFile, svc) ==
    IF ReadInput(rows) = <<>>
    THEN [processed |-> <<>>, errors |-> <<[kind |-> "No companies found in input"]>>,
          fate |-> <<>>, csv |-> file, cache |-> cacheFile, sent |-> 0, wrote |-> FALSE]
    ELSE CHOOSE result \in
            {Returned(st, check, load_existing_companies(file), file) :
                st \in {ProcessFrom(ReadInput(rows), load_existing_companies(file), 0,
                                    [processed |-> <<>>, errors |-> <<>>, fate |-> <<>>,
                                     file |-> cacheFile, sent |-> 0], svc)}} : TRUE

\* ------------------------------------------------------------------- inputs
\* the input files: up to MaxBatch data rows under the header
InputFiles == UNION {[1..n -> Rows] : n \in 1..MaxBatch}

Pieces == {HTTP, HTTPS, <<"H","T","T","P",":","/","/">>, <<"/">>, <<" ">>,
           <<"a",".","c","o">>, <<"x">>}

RECURSIVE Concat(_)
Concat(ps) == IF ps = <<>> THEN <<>> ELSE Head(ps) \o Concat(Tail(ps))

\* the strings handed to normalize_url: up to MaxPieces pieces in a row
UrlInputs == {Concat(ps) : ps \in UNION {[1..n -> Pieces] : n \in 1..MaxPieces}}

\* a record for validate_company: each required field is absent (None here),
\* empty, blank, or one of a few values
MkCompany(n, u, i, r, c, p) ==
    LET full == [name |-> n, url |-> u, industry |-> i, remote_policy |-> r,
                 city |-> c, province |-> p]
    IN [f \in {k \in DOMAIN full : full[k] # None} |-> full[f]]

Blanks == {None, <<>>, <<" ">>}

ValidateInputs ==
    {MkCompany(n, u, i, r, c, p) :
        n \in Blanks \cup {Acme.name},
        u \in Blanks \cup {Acme.url, Bad.url},
        i \in Blanks \cup {Acme.industry, Bolt.industry, Bad.industry},
        r \in Blanks \cup {Acme.remote_policy},
        c \in Blanks \cup {Acme.city},
        p \in Blanks \cup {Acme.province, Bolt.province, <<"X","X">>}}

\* the (city, province, hq_address) triples of direct geocode_location calls
GeoPlaces ==
    {<<c, p, h>> : c \in {Acme.city, Bolt.city}, p \in {<<"O","N">>, <<"B","C">>},
                   h \in {None, <<>>, AcmeInc.hq_address}}

\* the cache files a direct call may find
GeoFiles ==
    {AbsentCache, CorruptCache, CacheFile(EmptyMap)}
    \cup {CacheFile([k \in {CacheKey(pl[1], pl[2])} |-> Locate(Query(pl[1], pl[2], pl[3]))]) :
             pl \in GeoPlaces}

\* a row that reached companies.csv in the past and is in no input file
Yolk ==
    [name |-> <<"Y","o","l","k"," ","L","t","d">>, url |-> <<"y","o","l","k",".","c","a">>, industry |-> <<"G","a","m","i","n","g">>,
     remote_policy |-> <<"H","y","b","r","i","d">>, city |-> <<"H","u","l","l">>, province |-> <<"Q","C">>,
     description |-> <<"e","g","g","s">>, tags |-> <<>>, hq_address |-> <<>>]

\* the row of companies.csv an input row becomes when its lookup succeeds
PersistedOf(r) ==
    LET c == Normalized(r)
        place == Locate(Query(c["city"], c["province"], Strip(GetOr(c, "hq_address", <<>>))))
    IN WriteRow(Enriched(c, place.lat, place.lng))

FileRows == {PersistedOf(Acme), PersistedOf(AcmeComma), PersistedOf(Bolt), PersistedOf(Yolk)}

\* a companies.csv found on disk: up to MaxFile rows in any order, as left by
\* earlier runs or by manual edits
ExistingFiles == UNION {[1..n -> FileRows] : n \in 0..MaxFile}

\* ------------------------------------------------------------------ behaviour
NoCall == [city |-> <<>>, province |-> <<>>, hq_address |-> None, outcome |-> "none"]
NoResult == [ok |-> FALSE, lat |-> 0, lng |-> 0]

PipelineIdle ==
    /\ before = [csv |-> csv, cache |-> cache]
    /\ incoming = <<>>
    /\ check_only = FALSE
    /\ processed = <<>>
    /\ errors = <<>>
    /\ fate = <<>>
    /\ requests = 0
    /\ wrote = FALSE

GeoIdle == calls = 0 /\ geoArgs = NoCall /\ geoRet = NoResult

UrlIdle == url = <<>> /\ urlPrev = None /\ passes = 0

ValidateIdle == company = EmptyMap /\ validated = FALSE /\ valErrors = <<>>

\* companies.csv and the geocode cache do not exist yet
Init ==
    /\ csv = <<>>
    /\ cache = AbsentCache
    /\ left = MaxRuns
    /\ PipelineIdle /\ GeoIdle /\ UrlIdle /\ ValidateIdle

\* one run of the script on an input file that exists
Run(rows, check, svc) ==
    /\ left > 0
    /\ \E r \in {process_incoming_companies(rows, check, csv, cache, svc)} :
         /\ csv' = r.csv
         /\ cache' = r.cache
         /\ processed' = r.processed
         /\ errors' = r.errors
         /\ fate' = r.fate
         /\ requests' = r.sent
         /\ wrote' = r.wrote
    /\ before' = [csv |-> csv, cache |-> cache]
    /\ left' = left - 1
    /\ incoming' = rows
    /\ check_only' = check
    /\ UNCHANGED <<calls, geoArgs, geoRet, url, urlPrev, passes, company,
                   validated, valErrors>>

\* lines 256-259: one run with --input naming a file that does not exist
RunNoInput(check) ==
    /\ left > 0
    /\ before' = [csv |-> csv, cache |-> cache]
    /\ left' = left - 1
    /\ incoming' = <<>>
    /\ check_only' = check
    /\ processed' = <<>>
    /\ errors' = <<[kind |-> "Input file not found"]>>
    /\ fate' = <<>>
    /\ requests' = 0
    /\ wrote' = FALSE
    /\ UNCHANGED <<csv, cache, calls, geoArgs, geoRet, url, urlPrev, passes, company,
                   validated, valErrors>>

Next ==
    \/ \E rows \in InputFiles, check \in BOOLEAN, svc \in Outcomes : Run(rows, check, svc)
    \/ \E check \in BOOLEAN : RunNoInput(check)

Spec == Init /\ [][Next]_vars

\* one run against a companies.csv found on disk
InitFile ==
    /\ csv \in ExistingFiles
    /\ cache = AbsentCache
    /\ left = 1
    /\ PipelineIdle /\ GeoIdle /\ UrlIdle /\ ValidateIdle

SpecFile == InitFile /\ [][Next]_vars

\* direct calls of geocode_location against a cache file found on disk
InitGeo ==
    /\ csv = <<>>
    /\ cache \in GeoFiles
    /\ left = 0
    /\ PipelineIdle /\ GeoIdle /\ UrlIdle /\ ValidateIdle

GeocodeCall(place, outcome) ==
    /\ calls < MaxCalls
    /\ \E g \in {geocode_location(cache, place[1], place[2], place[3], outcome)} :
         /\ cache' = g.file
         /\ geoRet' = [ok |-> g.ok, lat |-> g.lat, lng |-> g.lng]
         /\ requests' = g.sent
    /\ geoArgs' = [city |-> place[1], province |-> place[2], hq_address |-> place[3],
                   outcome |-> outcome]
    /\ calls' = calls + 1
    /\ before' = [csv |-> csv, cache |-> cache]
    /\ UNCHANGED <<csv, left, incoming, check_only, processed, errors, fate, wrote,
                   url, urlPrev, passes, company,
                   validated, valErrors>>

NextGeo == \E place \in GeoPlaces, outcome \in Outcomes : GeocodeCall(place, outcome)

SpecGeo == InitGeo /\ [][NextGeo]_vars

\* normalize_url applied again and again to one string
InitUrl ==
    /\ csv = <<>>
    /\ cache = AbsentCache
    /\ left = 0
    /\ PipelineIdle /\ GeoIdle /\ ValidateIdle
    /\ url \in UrlInputs
    /\ urlPrev = None
    /\ passes = 0

NormalizeUrl ==
    /\ passes < MaxPasses
    /\ urlPrev' = url
    /\ url' = normalize_url(url)
    /\ passes' = passes + 1
    /\ UNCHANGED <<csv, cache, before, left, incoming, check_only, processed, errors, fate,
                   requests, wrote, calls, geoArgs, geoRet, company,
                   validated, valErrors>>

NextUrl == NormalizeUrl

SpecUrl == InitUrl /\ [][NextUrl]_vars

\* validate_company called on one record
InitValidate ==
    /\ csv = <<>>
    /\ cache = AbsentCache
    /\ left = 0
    /\ PipelineIdle /\ GeoIdle /\ UrlIdle
    /\ company \in ValidateInputs
    /\ validated = FALSE
    /\ valErrors = <<>>

ValidateCompany ==
    /\ ~validated
    /\ validated' = TRUE
    /\ valErrors' = validate_company(company)
    /\ UNCHANGED <<csv, cache, before, left, incoming, check_only, processed, errors, fate,
                   requests, wrote, calls, geoArgs, geoRet, url, urlPrev, passes, company>>

NextValidate == ValidateCompany

SpecValidate == InitValidate /\ [][NextValidate]_vars

\* ===================================================================== claims
\* the rows the last run's loop went over
KeptRows == ReadInput(incoming)

\* (normalize_name(name), city trimmed and lowercased, province trimmed and uppercased)
Triple(c) ==
    <<normalize_name(c["name"]), Lower(Strip(c["city"])), Upper(Strip(c["province"]))>>

\* number of entries of s equal to x
Count(s, x) == Cardinality({i \in 1..Len(s) : s[i] = x})

\* C1: a run in check-only mode, or a run in which some record produced an
\* error, leaves companies.csv exactly as it was.
C1_AllOrNothing ==
    (check_only \/ errors # <<>>) => csv = before.csv

\* a commit run where one record failed and another was processed, on top of
\* a non-empty dataset
C1_Witness ==
    /\ ~check_only /\ errors # <<>> /\ processed # <<>> /\ before.csv # <<>>
    /\ \E k \in 1..Len(fate) : fate[k] = "geocoding failed"

\* C2: starting from an empty dataset, no two rows of companies.csv share an
\* id, and no two share the normalized (name, city, province) triple.
C2_Unique ==
    \A i, j \in 1..Len(csv) :
        i # j => csv[i]["id"] # csv[j]["id"] /\ Triple(csv[i]) # Triple(csv[j])

\* a dataset of several rows, against which the last run rejected a duplicate
C2_Witness ==
    /\ Len(csv) >= 2
    /\ \E k \in 1..Len(fate) : fate[k] = "duplicate"

\* C3: every row of companies.csv has non-empty required fields and its
\* industry, remote_policy and province are members of the fixed sets.
C3_PersistedValid ==
    \A i \in 1..Len(csv) :
        /\ \A k \in 1..Len(required) : csv[i][required[k]] # <<>>
        /\ csv[i]["industry"] \in INDUSTRIES
        /\ csv[i]["remote_policy"] \in REMOTE_POLICIES
        /\ csv[i]["province"] \in PROVINCES

\* C4: a run in check-only mode changes neither companies.csv nor the
\* geocode cache file.
C4_CheckOnlyTouchesNothing ==
    check_only => (csv = before.csv /\ cache = before.cache)

\* C5: a run that writes companies.csv leaves it in ascending (province, name)
\* order, holding exactly the rows it had plus the records of the batch.
C5_SortedMerge ==
    wrote =>
        /\ \A i, j \in 1..Len(csv) :
              i < j =>
                \/ StrLess(csv[i]["province"], csv[j]["province"])
                \/ /\ csv[i]["province"] = csv[j]["province"]
                   /\ ~StrLess(csv[j]["name"], csv[i]["name"])
        /\ Len(csv) = Len(before.csv) + Len(processed)
        /\ \A i \in 1..Len(csv) :
              Count(csv, csv[i])
                = Count(before.csv, csv[i])
                  + Count([k \in 1..Len(processed) |-> WriteRow(processed[k])], csv[i])

\* a write that merged a batch given in descending order into a file whose
\* rows were in descending order
C5_Witness ==
    /\ wrote
    /\ Len(processed) >= 2
    /\ StrLess(processed[2]["province"], processed[1]["province"])
    /\ Len(before.csv) >= 2
    /\ StrLess(before.csv[2]["province"], before.csv[1]["province"])

\* the names of the kept rows whose iteration ended in processed.append
RECURSIVE AcceptedNames(_, _)
AcceptedNames(rows, fates) ==
    IF rows = <<>> THEN <<>>
    ELSE (IF Head(fates) = "processed" THEN <<Head(rows)["name"]>> ELSE <<>>)
         \o AcceptedNames(Tail(rows), Tail(fates))

\* C6: a valid candidate whose normalized (name, city, province) equals that
\* of a row of the existing dataset, or of a record accepted earlier in the
\* batch, is reported as a duplicate and is not among the accepted records.
C6_DedupRejects ==
    /\ Len(fate) = Len(KeptRows)
    /\ [i \in 1..Len(processed) |-> processed[i]["name"]] = AcceptedNames(KeptRows, fate)
    /\ \A k \in 1..Len(KeptRows) :
          ( /\ validate_company(KeptRows[k]) = <<>>
            /\ \/ \E i \in 1..Len(before.csv) : Triple(before.csv[i]) = Triple(KeptRows[k])
               \/ \E j \in 1..(k - 1) :
                     fate[j] = "processed" /\ Triple(KeptRows[j]) = Triple(KeptRows[k]) )
          => /\ fate[k] \in {"duplicate", "duplicate in batch"}
             /\ \E e \in 1..Len(errors) :
                   /\ errors[e].kind \in {"Duplicate company", "Duplicate company in batch"}
                   /\ errors[e].name = KeptRows[k]["name"]
                   /\ errors[e].city = KeptRows[k]["city"]

\* a candidate rejected against the dataset although no row has its id
C6_Witness ==
    \E k \in 1..Len(fate) :
        /\ fate[k] = "duplicate"
        /\ \A i \in 1..Len(before.csv) :
              before.csv[i]["id"] # generate_id(KeptRows[k]["name"], KeptRows[k]["city"])

\* cache key of the last direct call
GeoKey(args) == CacheKey(args.city, args.province)

\* C7: a direct call that finds its key in the cache returns the cached pair,
\* sends nothing and leaves the cache file alone, whatever the address hint;
\* a request is sent only on a miss; after a successful lookup the key is in
\* the cache file, and no entry ever leaves it.
C7_CacheFirst ==
    calls > 0 =>
        LET key == GeoKey(geoArgs)
            found == load_cache(before.cache)
        IN /\ key \in DOMAIN found =>
                /\ geoRet = [ok |-> TRUE, lat |-> found[key].lat, lng |-> found[key].lng]
                /\ requests = 0
                /\ cache = before.cache
           /\ requests > 0 => key \notin DOMAIN found
           /\ (geoRet.ok /\ requests > 0) =>
                (cache.state = "ok" /\ key \in DOMAIN cache.data)
           /\ \A k \in DOMAIN found : k \in DOMAIN load_cache(cache)

\* a call with an address hint answered from the cache an earlier call filled
C7_Witness ==
    /\ calls >= 2
    /\ geoRet.ok
    /\ requests = 0
    /\ Truthy(geoArgs.hq_address)
    /\ Locate(Query(geoArgs.city, geoArgs.province, geoArgs.hq_address)).lat # geoRet.lat

\* C8: normalizing a normalized URL changes nothing.
C8_UrlIdempotent == passes >= 2 => url = urlPrev

\* C9: the row numbers in the validation errors of a run are the row numbers,
\* in the input file, of the records that failed validation (header = row 1).
C9_RowRefsMatchInput ==
    {errors[e].row : e \in {x \in 1..Len(errors) : "row" \in DOMAIN errors[x]}}
        = {p + 1 : p \in {q \in 1..Len(incoming) :
                             Kept(incoming[q]) /\ validate_company(incoming[q]) # <<>>}}

\* field is absent, empty or whitespace-only in the record
IsMissing(c, field) == ~Truthy(Get(c, field)) \/ Strip(c[field]) = <<>>

\* C10: validate_company returns exactly one error about each required field
\* that is absent, empty or whitespace-only.
C10_OneErrorPerMissingField ==
    validated =>
        \A k \in 1..Len(required) :
            IsMissing(company, required[k]) =>
                Cardinality({e \in 1..Len(valErrors) : valErrors[e].field = required[k]}) = 1

====
